---------------------------- MODULE Spec2Model ----------------------------
(***************************************************************************)
(* A model of scripts/fetch-imf-data.py: the trust-scoring functions, the  *)
(* two indicator fetchers (inflation, GDP) with their existence check and  *)
(* insert, and the batch driver main().                                    *)
(*                                                                         *)
(* Spec (LiveSpec with fairness) is the batch job run up to MaxRuns times; *)
(* FetchSpec calls one fetcher twice with the same API response; ScoreSpec *)
(* applies the scoring functions to inputs from bounded sets.              *)
(*                                                                         *)
(* Text (str values, ISO dates, period labels) is a sequence of one-       *)
(* character strings, so that str(), slicing and parsing are computed.     *)
(* The facts_evaluation table is a bag of rows (the table has no unique    *)
(* key, so a row may occur more than once).                                *)
(***************************************************************************)
EXTENDS Integers, Sequences, FiniteSets, Bags, TLC

(***************************************************************************)
(* Bounds of the model.                                                    *)
(***************************************************************************)
\* Number of times the batch job is run, one after the other.
MaxRuns == 2

(***************************************************************************)
(* Text helpers.                                                           *)
(***************************************************************************)
DigitChars == <<"0", "1", "2", "3", "4", "5", "6", "7", "8", "9">>

IsDigit(c) == \E i \in 1..10 : DigitChars[i] = c

DigitVal(c) == (CHOOSE i \in 1..10 : DigitChars[i] = c) - 1

\* Decimal text of a natural number (Python's str(int) for n >= 0).
RECURSIVE NatToText(_)
NatToText(n) == IF n < 10 THEN <<DigitChars[n + 1]>>
                ELSE NatToText(n \div 10) \o <<DigitChars[(n % 10) + 1]>>

\* Value of a text of digits.
RECURSIVE TextToNat(_)
TextToNat(t) == IF Len(t) = 0 THEN 0
                ELSE 10 * TextToNat(SubSeq(t, 1, Len(t) - 1)) + DigitVal(t[Len(t)])

\* Python slice t[:n].
Prefix(t, n) == SubSeq(t, 1, IF Len(t) < n THEN Len(t) ELSE n)

(***************************************************************************)
(* Python's round(n / d) for integers n, d with d # 0: the nearest         *)
(* integer, a tie going to the even one.                                   *)
(***************************************************************************)
round(n, d) ==
    LET nn == IF d < 0 THEN -n ELSE n
        dd == IF d < 0 THEN -d ELSE d
        q  == nn \div dd
        r  == nn % dd
    IN  IF 2 * r < dd THEN q
        ELSE IF 2 * r > dd THEN q + 1
        ELSE IF q % 2 = 0 THEN q ELSE q + 1


(***************************************************************************)
(* Calendar: datetime.fromisoformat, datetime.now and timedelta.days.      *)
(* A date is <<year, month, day>>; an instant is <<year, month, day,       *)
(* hour>>.                                                                 *)
(***************************************************************************)
IsLeap(y) == (y % 4 = 0) /\ ((y % 100 # 0) \/ (y % 400 = 0))

DaysInMonth(y, m) ==
    IF m = 2 THEN (IF IsLeap(y) THEN 29 ELSE 28)
    ELSE IF m \in {4, 6, 9, 11} THEN 30 ELSE 31

RECURSIVE DaysBeforeMonth(_, _)
DaysBeforeMonth(y, m) ==
    IF m = 1 THEN 0 ELSE DaysBeforeMonth(y, m - 1) + DaysInMonth(y, m - 1)

\* date.toordinal(): 1 for 0001-01-01.
ToOrdinal(y, m, d) ==
    LET p == y - 1
    IN  365 * p + (p \div 4) - (p \div 100) + (p \div 400) + DaysBeforeMonth(y, m) + d

\* Whether datetime.fromisoformat(t) accepts the text t, for texts of the
\* shape "<something>-MM-DD" the script builds: exactly YYYY-MM-DD with a
\* year of 0001..9999 and a day the month has.  Anything else raises
\* ValueError.
fromisoformat_ok(t) ==
    /\ Len(t) = 10
    /\ \A i \in {1, 2, 3, 4, 6, 7, 9, 10} : IsDigit(t[i])
    /\ t[5] = "-" /\ t[8] = "-"
    /\ LET y == TextToNat(SubSeq(t, 1, 4))
           m == TextToNat(SubSeq(t, 6, 7))
           d == TextToNat(SubSeq(t, 9, 10))
       IN  y >= 1 /\ m \in 1..12 /\ d >= 1 /\ d <= DaysInMonth(y, m)

\* datetime.fromisoformat(t) of an accepted text: midnight of that date.
fromisoformat(t) ==
    <<TextToNat(SubSeq(t, 1, 4)), TextToNat(SubSeq(t, 6, 7)), TextToNat(SubSeq(t, 9, 10))>>

\* (now - datetime.fromisoformat(evaluated_at)).days: timedelta.days is the
\* floor of the difference in days, negative for a date in the future.
days_old(now, evaluated_at) ==
    LET e     == fromisoformat(evaluated_at)
        nowH  == 24 * ToOrdinal(now[1], now[2], now[3]) + now[4]
        evalH == 24 * ToOrdinal(e[1], e[2], e[3])
        diff  == nowH - evalH
    IN  IF diff >= 0 THEN diff \div 24 ELSE -((-diff + 23) \div 24)

(***************************************************************************)
(* Trust scoring.                                                          *)
(***************************************************************************)
DefaultSourceTrust == 91

ConsensusScore == 95

\* calculate_source_trust_score(conn, source_url): sources is the content of
\* the sources table, a function from domain to its three metrics.  The
\* query is keyed by the literal 'www.imf.org'.
calculate_source_trust_score(sources, source_url) ==
    IF "www.imf.org" \in DOMAIN sources
    THEN LET source == sources["www.imf.org"]
         IN  round(source.public_trust + source.data_accuracy + source.proprietary_score, 3)
    ELSE DefaultSourceTrust

\* Mutant: < in place of <= at the tier boundaries.
calculate_recency_score_lt(now, evaluated_at, tier1_days, tier1_score, tier2_days, tier2_score, tier3_score) ==
    IF days_old(now, evaluated_at) < tier1_days THEN tier1_score
    ELSE IF days_old(now, evaluated_at) < tier2_days THEN tier2_score
    ELSE tier3_score

\* calculate_recency_score, with the wall clock read at the call as `now'.
\* Defined for an evaluated_at that fromisoformat accepts.
calculate_recency_score(now, evaluated_at, tier1_days, tier1_score, tier2_days, tier2_score, tier3_score) ==
    IF days_old(now, evaluated_at) <= tier1_days THEN tier1_score
    ELSE IF days_old(now, evaluated_at) <= tier2_days THEN tier2_score
    ELSE tier3_score

\* Mutant: int(...) in place of round(...).
calculate_trust_score_trunc(source_trust, recency, consensus, st_weight, rec_weight, con_weight) ==
    LET total_weight == st_weight + rec_weight + con_weight
        total == source_trust * st_weight + recency * rec_weight + consensus * con_weight
    IN  IF total_weight = 0 THEN 0
        ELSE IF (total >= 0) = (total_weight > 0)
             THEN (IF total >= 0 THEN total ELSE -total) \div
                  (IF total_weight > 0 THEN total_weight ELSE -total_weight)
             ELSE -((IF total >= 0 THEN total ELSE -total) \div
                    (IF total_weight > 0 THEN total_weight ELSE -total_weight))

calculate_trust_score(source_trust, recency, consensus, st_weight, rec_weight, con_weight) ==
    LET total_weight == st_weight + rec_weight + con_weight
    IN  IF total_weight = 0 THEN 0
        ELSE round(source_trust * st_weight + recency * rec_weight + consensus * con_weight, total_weight)

(***************************************************************************)
(* Observations returned by the API.                                       *)
(*                                                                         *)
(* The result of sdmx.to_pandas is a Series of floats indexed by period.   *)
(* A value is [kind |-> "float", centi |-> n], standing for n / 100.       *)
(*                                                                         *)
(* A period label is [kind, ord, items]: a tuple of texts (a MultiIndex    *)
(* entry), a str, or a scalar object without __iter__ whose str() is       *)
(* items.  ord is its place in the index order.                            *)
(***************************************************************************)
\* str() of a float n / 100: Python's shortest repr.
StrFloat(n) ==
    LET frac == n % 100
    IN  NatToText(n \div 100) \o <<".">> \o
        (IF frac % 10 = 0 THEN NatToText(frac \div 10)
         ELSE NatToText(frac \div 10) \o NatToText(frac % 10))

\* str(value), as passed to evaluation_exists and written by insert_evaluation.
str(value) == StrFloat(value.centi)

\* df.sort_index(ascending=False): the entry first in descending index order.
Latest(df) == CHOOSE o \in df : \A p \in df : p.period.ord <= o.period.ord

\* Lines 184-187 (and 229-232): the year taken from the period label.
year_of(latest_period) ==
    IF latest_period.kind \in {"tuple", "str"} /\ Len(latest_period.items) > 0
    THEN (IF latest_period.kind = "tuple" THEN latest_period.items[1]
          ELSE <<latest_period.items[1]>>)
    ELSE IF latest_period.kind = "tuple" THEN <<"(", ")">>
    ELSE Prefix(latest_period.items, 4)

\* f"{year}-12-31"
evaluated_at_of(year) == year \o <<"-", "1", "2", "-", "3", "1">>

CPI_URL == "https://www.imf.org/external/datamapper/datasets/CPI"

IFS_URL == "https://www.imf.org/external/datamapper/datasets/IFS"

(***************************************************************************)
(* The facts_evaluation table and the two statements run on it.            *)
(***************************************************************************)
\* Mutant: the query parameters bound in the wrong order.
evaluation_exists_swapped(table, entity, attribute, source_url, value) ==
    \E row \in BagToSet(table) :
        /\ row.entity = attribute
        /\ row.attribute = entity
        /\ row.source_url = source_url
        /\ row.value = value

\* SELECT 1 FROM facts_evaluation WHERE entity = .. AND attribute = ..
\* AND source_url = .. AND value = .. LIMIT 1; `value' is the text passed.
evaluation_exists(table, entity, attribute, source_url, value) ==
    \E row \in BagToSet(table) :
        /\ row.entity = entity
        /\ row.attribute = attribute
        /\ row.source_url = source_url
        /\ row.value = value

\* The row insert_evaluation writes (lines 129-159).
EvaluationRow(entity, attribute, value, source_url, evaluated_at, settings, notes, now, sources) ==
    LET source_trust_score == calculate_source_trust_score(sources, source_url)
        recency_score == calculate_recency_score(now, evaluated_at,
                             settings.recency_tier1_days, settings.recency_tier1_score,
                             settings.recency_tier2_days, settings.recency_tier2_score,
                             settings.recency_tier3_score)
        consensus_score == ConsensusScore
        trust_score == calculate_trust_score(source_trust_score, recency_score, consensus_score,
                             settings.source_trust_weight, settings.recency_weight,
                             settings.consensus_weight)
    IN  [entity |-> entity, attribute |-> attribute, value |-> str(value),
         value_type |-> "numeric", source_url |-> source_url, source_trust |-> "IMF",
         source_trust_score |-> source_trust_score, recency_score |-> recency_score,
         consensus_score |-> consensus_score,
         source_trust_weight |-> settings.source_trust_weight,
         recency_weight |-> settings.recency_weight,
         consensus_weight |-> settings.consensus_weight,
         trust_score |-> trust_score, evaluation_notes |-> notes,
         evaluated_at |-> evaluated_at, status |-> "evaluating"]

\* format(value, ".2f") of a float n / 100.
Fixed2(n) == NatToText(n \div 100) \o <<".">> \o NatToText((n % 100) \div 10) \o NatToText(n % 10)

\* Mutant: the value column written with two decimals instead of str(value).
insert_evaluation_fixed2(table, entity, attribute, value, source_url, evaluated_at, settings, notes, now, sources, fail) ==
    IF fail = "sources" THEN [table |-> table, raised |-> "sources_error"]
    ELSE IF ~fromisoformat_ok(evaluated_at) THEN [table |-> table, raised |-> "date_error"]
    ELSE IF fail = "insert" THEN [table |-> table, raised |-> "insert_error"]
    ELSE IF fail = "commit" THEN [table |-> table, raised |-> "commit_error"]
    ELSE [table |-> table (+) SetToBag({[EvaluationRow(entity, attribute, value, source_url,
                                             evaluated_at, settings, notes, now, sources)
                                         EXCEPT !.value = Fixed2(value.centi)]}),
          raised |-> "none"]

\* insert_evaluation.  `fail' names the database call that raises in this
\* invocation, if any: "sources" (the SELECT of calculate_source_trust_score),
\* "insert" (the INSERT) or "commit" (conn.commit()).  A malformed
\* evaluated_at raises ValueError in calculate_recency_score.  The result is
\* the table afterwards and whether an exception left the function; a row is
\* in the table only once committed.
insert_evaluation(table, entity, attribute, value, source_url, evaluated_at, settings, notes, now, sources, fail) ==
    IF fail = "sources" THEN [table |-> table, raised |-> "sources_error"]
    ELSE IF ~fromisoformat_ok(evaluated_at) THEN [table |-> table, raised |-> "date_error"]
    ELSE IF fail = "insert" THEN [table |-> table, raised |-> "insert_error"]
    ELSE IF fail = "commit" THEN [table |-> table, raised |-> "commit_error"]
    ELSE [table |-> table (+) SetToBag({EvaluationRow(entity, attribute, value, source_url,
                                            evaluated_at, settings, notes, now, sources)}),
          raised |-> "none"]

(***************************************************************************)
(* The indicator fetchers.                                                 *)
(*                                                                         *)
(* resp is what imf_client.data(..) and sdmx.to_pandas(..) produce for the *)
(* call: [kind |-> "error"] when either raises, else [kind |-> "frame",    *)
(* df |-> the set of observations].  fail names the database call that     *)
(* raises during the invocation ("none", "exists", "sources", "insert",    *)
(* "commit").  The result is the table afterwards, the value returned and  *)
(* how the invocation ended.                                               *)
(***************************************************************************)
\* The try block the two fetchers share, lines 166-203 and 214-246; note is
\* the text before the year in the evaluation notes.  exception tells
\* whether an exception left the block.  The progress print after the
\* insert (lines 202, 245) formats a float and does not raise.
fetch_try(table, attribute, source_url, note, country_name, settings, sources, now, resp, fail) ==
    IF resp.kind = "error" THEN [table |-> table, exception |-> TRUE, outcome |-> "api_error"]
    ELSE IF resp.df = {} THEN [table |-> table, exception |-> FALSE, ret |-> 0, outcome |-> "empty"]
    ELSE
    LET latest_value  == Latest(resp.df).value
        latest_period == Latest(resp.df).period
        year          == year_of(latest_period)
        evaluated_at  == evaluated_at_of(year)
        ins == insert_evaluation(table, country_name, attribute, latest_value, source_url,
                                 evaluated_at, settings, <<note, year>>, now, sources, fail)
    IN  IF fail = "exists"
        THEN [table |-> table, exception |-> TRUE, outcome |-> "exists_error"]
        ELSE IF evaluation_exists(table, country_name, attribute, source_url, str(latest_value))
        THEN [table |-> table, exception |-> FALSE, ret |-> 0, outcome |-> "duplicate"]
        ELSE IF ins.raised # "none"
        THEN [table |-> ins.table, exception |-> TRUE, outcome |-> ins.raised]
        ELSE [table |-> ins.table, exception |-> FALSE, ret |-> 1, outcome |-> "inserted"]

\* Mutant: "already exists" counted as an insertion.
fetch_imf_inflation_dupcount(table, country_code, country_name, settings, sources, now, resp, fail) ==
    LET r == fetch_try(table, "inflation", CPI_URL, "IMF CPI data, year ", country_name,
                       settings, sources, now, resp, fail)
    IN  [table |-> r.table,
         ret |-> IF r.exception THEN 0 ELSE IF r.outcome = "duplicate" THEN 1 ELSE r.ret,
         outcome |-> r.outcome, escaped |-> FALSE]

\* Mutant: no except clause, an exception leaves the fetcher.
fetch_imf_gdp_uncaught(table, country_code, country_name, settings, sources, now, resp, fail) ==
    LET r == fetch_try(table, "gdp", IFS_URL, "IMF IFS GDP data, year ", country_name,
                       settings, sources, now, resp, fail)
    IN  [table |-> r.table, ret |-> IF r.exception THEN 0 ELSE r.ret,
         outcome |-> r.outcome, escaped |-> r.exception]

\* try: ... except Exception: print, return 0 (lines 165, 205-209 and 213,
\* 248-250).  escaped tells whether an exception leaves the fetcher.
fetch_imf_inflation(table, country_code, country_name, settings, sources, now, resp, fail) ==
    LET r == fetch_try(table, "inflation", CPI_URL, "IMF CPI data, year ", country_name,
                       settings, sources, now, resp, fail)
    IN  [table |-> r.table, ret |-> IF r.exception THEN 0 ELSE r.ret,
         outcome |-> r.outcome, escaped |-> FALSE]

fetch_imf_gdp(table, country_code, country_name, settings, sources, now, resp, fail) ==
    LET r == fetch_try(table, "gdp", IFS_URL, "IMF IFS GDP data, year ", country_name,
                       settings, sources, now, resp, fail)
    IN  [table |-> r.table, ret |-> IF r.exception THEN 0 ELSE r.ret,
         outcome |-> r.outcome, escaped |-> FALSE]

(***************************************************************************)
(* The static tables of the script.                                        *)
(***************************************************************************)
COUNTRY_CODE_MAP ==
    [c \in {"ARG", "AUS", "AUT", "BGD", "BEL", "BRA", "CAN", "CHL", "COL", "CZE", "DNK",
            "EGY", "FIN", "FRA", "DEU", "GRC", "HUN", "IND", "IDN", "IRL", "ISR", "ITA",
            "JPN", "NLD", "MYS", "MEX", "NZL", "NGA", "NOR", "PAK", "PRY", "CHN", "PHL",
            "POL", "PRT", "ROU", "RUS", "SAU", "SGP", "ZAF", "KOR", "ESP", "SWE", "CHE",
            "THA", "TUR", "USA", "VNM"} |->
        CASE c = "ARG" -> "Argentina" [] c = "AUS" -> "Australia" [] c = "AUT" -> "Austria"
          [] c = "BGD" -> "Bangladesh" [] c = "BEL" -> "Belgium" [] c = "BRA" -> "Brazil"
          [] c = "CAN" -> "Canada" [] c = "CHL" -> "Chile" [] c = "COL" -> "Colombia"
          [] c = "CZE" -> "Czech Republic" [] c = "DNK" -> "Denmark" [] c = "EGY" -> "Egypt"
          [] c = "FIN" -> "Finland" [] c = "FRA" -> "France" [] c = "DEU" -> "Germany"
          [] c = "GRC" -> "Greece" [] c = "HUN" -> "Hungary" [] c = "IND" -> "India"
          [] c = "IDN" -> "Indonesia" [] c = "IRL" -> "Ireland" [] c = "ISR" -> "Israel"
          [] c = "ITA" -> "Italy" [] c = "JPN" -> "Japan"
          [] c = "NLD" -> "Kingdom of the Netherlands" [] c = "MYS" -> "Malaysia"
          [] c = "MEX" -> "Mexico" [] c = "NZL" -> "New Zealand" [] c = "NGA" -> "Nigeria"
          [] c = "NOR" -> "Norway" [] c = "PAK" -> "Pakistan" [] c = "PRY" -> "Paraguay"
          [] c = "CHN" -> "People's Republic of China" [] c = "PHL" -> "Philippines"
          [] c = "POL" -> "Poland" [] c = "PRT" -> "Portugal" [] c = "ROU" -> "Romania"
          [] c = "RUS" -> "Russia" [] c = "SAU" -> "Saudi Arabia" [] c = "SGP" -> "Singapore"
          [] c = "ZAF" -> "South Africa" [] c = "KOR" -> "South Korea" [] c = "ESP" -> "Spain"
          [] c = "SWE" -> "Sweden" [] c = "CHE" -> "Switzerland" [] c = "THA" -> "Thailand"
          [] c = "TUR" -> "Turkey" [] c = "USA" -> "United States" [] c = "VNM" -> "Vietnam"]

test_countries == <<"USA", "CAN", "DEU", "JPN", "GBR">>

\* Mutant: COUNTRY_CODE_MAP.get(country_code, country_code).
country_name_of_default(country_code) ==
    IF country_code \in DOMAIN COUNTRY_CODE_MAP THEN COUNTRY_CODE_MAP[country_code]
    ELSE country_code

\* COUNTRY_CODE_MAP.get(country_code): the name, or None.
country_name_of(country_code) ==
    IF country_code \in DOMAIN COUNTRY_CODE_MAP THEN COUNTRY_CODE_MAP[country_code] ELSE "None"

(***************************************************************************)
(* The inputs of the batch runs.                                           *)
(***************************************************************************)
Text2023 == <<"2", "0", "2", "3">>

\* A MultiIndex entry that starts with the year.
PeriodTuple == [kind |-> "tuple", ord |-> 2, items |-> <<Text2023, <<"Q", "4">>>>]

\* A period object without __iter__, str() "2022-12".
PeriodScalar == [kind |-> "scalar", ord |-> 1, items |-> <<"2", "0", "2", "2", "-", "1", "2">>]

\* A plain str label: iterable, so its first character is taken as the year.
PeriodStr == [kind |-> "str", ord |-> 3, items |-> Text2023]

Float(n) == [kind |-> "float", centi |-> n]

Frame(df) == [kind |-> "frame", df |-> df]

\* What the API may answer to one query of a batch run.
MainResponses ==
    { [kind |-> "error"],
      Frame({}),
      Frame({[period |-> PeriodTuple, value |-> Float(150)]}),
      Frame({[period |-> PeriodScalar, value |-> Float(120)],
             [period |-> PeriodTuple, value |-> Float(150)]}),
      Frame({[period |-> PeriodTuple, value |-> Float(150)],
             [period |-> PeriodStr, value |-> Float(175)]}) }

FailPoints == {"none", "exists", "sources", "insert", "commit"}

\* The wall clock during the batch runs.
MainNow == <<2026, 11, 1, 9>>

Settings1 ==
    [recency_tier1_days |-> 30, recency_tier1_score |-> 100,
     recency_tier2_days |-> 90, recency_tier2_score |-> 80, recency_tier3_score |-> 50,
     source_trust_weight |-> 3, recency_weight |-> 1, consensus_weight |-> 1]

Metrics(p, a, s) == [public_trust |-> p, data_accuracy |-> a, proprietary_score |-> s]

ImfSources == [d \in {"www.imf.org"} |-> Metrics(90, 95, 85)]

NoSources == [d \in {} |-> Metrics(0, 0, 0)]

(***************************************************************************)
(* The batch driver main() as a state machine.                             *)
(***************************************************************************)
VARIABLES
    facts_evaluation,   \* the table, a bag of rows
    scoring_settings,   \* the rows of the scoring_settings table, a sequence
    sources_table,      \* the sources table, domain -> metrics
    run,                \* number of the batch run (process) under way
    pc,                 \* where main() stands
    conn,               \* "none", "open" or "closed"
    opens,              \* connections opened by this run
    settings,           \* <<>> (None / not loaded) or <<the settings row>>
    imf_client,         \* whether sdmx.Client('IMF') was created
    total_count,
    idx,                \* index into test_countries of the loop
    exit_code,          \* -1 while running, then the process's exit status
    reported,           \* the total printed at the end, -1 before
    calls,              \* the fetcher invocations of this run, in order
    last,               \* the most recent fetcher invocation of this run
    gained,             \* rows committed to facts_evaluation by this run
    queried,            \* whether this run issued an API query
    checked,            \* whether this run issued a statement on facts_evaluation
    probe               \* the direct calls of FetchSpec and ScoreSpec (see below)

vars == <<facts_evaluation, scoring_settings, sources_table, run, pc, conn, opens, settings,
          imf_client, total_count, idx, exit_code, reported, calls, last, gained, queried,
          checked, probe>>

NoProbe == [fn |-> "none"]

NoCall == [fn |-> "none", code |-> "none", outcome |-> "none", ret |-> 0, added |-> 0]

\* The state of a process about to start.
Fresh ==
    /\ pc = "start" /\ conn = "none" /\ opens = 0 /\ settings = <<>>
    /\ imf_client = FALSE /\ total_count = 0 /\ idx = 0 /\ exit_code = -1
    /\ reported = -1 /\ calls = <<>> /\ last = NoCall /\ gained = 0
    /\ queried = FALSE /\ checked = FALSE

Init ==
    /\ facts_evaluation = EmptyBag
    /\ scoring_settings \in {<<>>, <<Settings1>>}
    /\ sources_table = ImfSources
    /\ run = 1
    /\ Fresh
    /\ probe = NoProbe

\* get_scoring_settings: SELECT * FROM scoring_settings LIMIT 1; fetchone().
get_scoring_settings(rows) == IF rows = <<>> THEN <<>> ELSE <<rows[1]>>

\* Lines 253-257: connect and load the settings.
Connect ==
    /\ pc = "start"
    /\ conn' = "open" /\ opens' = opens + 1
    /\ settings' = get_scoring_settings(scoring_settings)
    /\ pc' = "settings"
    /\ UNCHANGED <<facts_evaluation, scoring_settings, sources_table, run, imf_client,
                   total_count, idx, exit_code, reported, calls, last, gained, queried, checked, probe>>

\* Lines 259-261: no settings, sys.exit(1).
ExitNoSettings ==
    /\ pc = "settings" /\ settings = <<>>
    /\ exit_code' = 1 /\ pc' = "exited"
    /\ UNCHANGED <<facts_evaluation, scoring_settings, sources_table, run, conn, opens,
                   settings, imf_client, total_count, idx, reported, calls, last, gained,
                   queried, checked, probe>>

\* Mutant: the client is created whether or not settings were found.
CreateClient_unchecked ==
    /\ pc = "settings"
    /\ imf_client' = TRUE /\ total_count' = 0 /\ idx' = 1 /\ pc' = "loop"
    /\ UNCHANGED <<facts_evaluation, scoring_settings, sources_table, run, conn, opens,
                   settings, exit_code, reported, calls, last, gained, queried, checked, probe>>

\* Lines 264-269: create the API client, start the loop.
CreateClient ==
    /\ pc = "settings" /\ settings # <<>>
    /\ imf_client' = TRUE /\ total_count' = 0 /\ idx' = 1 /\ pc' = "loop"
    /\ UNCHANGED <<facts_evaluation, scoring_settings, sources_table, run, conn, opens,
                   settings, exit_code, reported, calls, last, gained, queried, checked, probe>>

\* Lines 271-275: a code without a name is skipped.
SkipUnmapped ==
    /\ pc = "loop" /\ idx <= Len(test_countries)
    /\ country_name_of(test_countries[idx]) = "None"
    /\ idx' = idx + 1
    /\ UNCHANGED <<facts_evaluation, scoring_settings, sources_table, run, pc, conn, opens,
                   settings, imf_client, total_count, exit_code, reported, calls, last,
                   gained, queried, checked, probe>>

\* The effect on the driver of one fetcher invocation with result r: an
\* exception that leaves the fetcher ends main() with a traceback.
Invoke(fn, r, next_pc, next_idx) ==
    /\ facts_evaluation' = r.table
    /\ calls' = Append(calls, <<fn, test_countries[idx]>>)
    /\ last' = [fn |-> fn, code |-> test_countries[idx], outcome |-> r.outcome, ret |-> r.ret,
                added |-> BagCardinality(r.table) - BagCardinality(facts_evaluation)]
    /\ gained' = gained + BagCardinality(r.table) - BagCardinality(facts_evaluation)
    /\ queried' = TRUE
    /\ checked' = (checked \/ r.outcome \notin {"api_error", "empty"})
    /\ IF r.escaped
       THEN /\ pc' = "crashed" /\ exit_code' = 1
            /\ UNCHANGED <<total_count, idx>>
       ELSE /\ total_count' = total_count + r.ret
            /\ pc' = next_pc /\ idx' = next_idx
            /\ UNCHANGED exit_code
    /\ UNCHANGED <<scoring_settings, sources_table, run, conn, opens, settings, imf_client,
                   reported, probe>>

\* Lines 271-280: a mapped code, the inflation fetch.
FetchInflation ==
    /\ pc = "loop" /\ idx <= Len(test_countries)
    /\ country_name_of(test_countries[idx]) # "None"
    /\ \E resp \in MainResponses, fail \in FailPoints :
         Invoke("inflation",
                fetch_imf_inflation(facts_evaluation, test_countries[idx],
                                    country_name_of(test_countries[idx]), settings[1],
                                    sources_table, MainNow, resp, fail),
                "gdp", idx)

\* Line 283: the GDP fetch of the same country.
FetchGdp ==
    /\ pc = "gdp"
    /\ \E resp \in MainResponses, fail \in FailPoints :
         Invoke("gdp",
                fetch_imf_gdp(facts_evaluation, test_countries[idx],
                              country_name_of(test_countries[idx]), settings[1],
                              sources_table, MainNow, resp, fail),
                "loop", idx + 1)

\* Line 285: conn.close() after the loop.
CloseConn ==
    /\ pc = "loop" /\ idx > Len(test_countries)
    /\ conn' = "closed" /\ pc' = "report"
    /\ UNCHANGED <<facts_evaluation, scoring_settings, sources_table, run, opens, settings,
                   imf_client, total_count, idx, exit_code, reported, calls, last, gained,
                   queried, checked, probe>>

\* Lines 287-288: the final report; the process ends with status 0.
Report ==
    /\ pc = "report"
    /\ reported' = total_count /\ exit_code' = 0 /\ pc' = "done"
    /\ UNCHANGED <<facts_evaluation, scoring_settings, sources_table, run, conn, opens,
                   settings, imf_client, total_count, idx, calls, last, gained, queried,
                   checked, probe>>

\* The job is run again: a new process, facts_evaluation as the last one left
\* it; the settings row may have been removed or restored meanwhile.
NewRun ==
    /\ pc \in {"done", "exited", "crashed"}
    /\ run < MaxRuns
    /\ run' = run + 1
    /\ pc' = "start" /\ conn' = "none" /\ opens' = 0 /\ settings' = <<>>
    /\ imf_client' = FALSE /\ total_count' = 0 /\ idx' = 0 /\ exit_code' = -1
    /\ reported' = -1 /\ calls' = <<>> /\ last' = NoCall /\ gained' = 0
    /\ queried' = FALSE /\ checked' = FALSE
    /\ scoring_settings' \in {<<>>, <<Settings1>>}
    /\ UNCHANGED <<facts_evaluation, sources_table, probe>>

Next ==
    \/ Connect
    \/ ExitNoSettings
    \/ CreateClient
    \/ SkipUnmapped
    \/ FetchInflation
    \/ FetchGdp
    \/ CloseConn
    \/ Report
    \/ NewRun

Spec == Init /\ [][Next]_vars

\* The statements of the script run one after the other and each of them
\* returns or raises: a run that has started goes on to its end.
LiveSpec == Spec /\ WF_vars(Next)

(***************************************************************************)
(* FetchSpec: one fetcher called twice in a row with the same API          *)
(* response (in one run or in two successive runs), from a table that      *)
(* earlier runs may have left.  probe holds the call and what its two      *)
(* invocations did.                                                        *)
(***************************************************************************)
FetchResponses ==
    { [kind |-> "error"],
      Frame({}),
      Frame({[period |-> PeriodTuple, value |-> Float(150)]}),
      Frame({[period |-> PeriodTuple, value |-> Float(1205)]}),
      Frame({[period |-> PeriodScalar, value |-> Float(120)],
             [period |-> PeriodTuple, value |-> Float(150)]}),
      Frame({[period |-> PeriodStr, value |-> Float(150)]}) }

\* The wall clock at a call.
FetchNows == {<<2024, 1, 15, 0>>, MainNow}

FetchCodes == {"USA", "JPN"}

AttributeUrl(attribute) == IF attribute = "inflation" THEN CPI_URL ELSE IFS_URL

\* Rows that earlier runs may have inserted.
EarlierRows ==
    { EvaluationRow(country_name_of(code), attribute, Float(n), AttributeUrl(attribute),
                    evaluated_at_of(Text2023), Settings1, <<"earlier run", Text2023>>,
                    MainNow, ImfSources) :
        code \in FetchCodes, attribute \in {"inflation", "gdp"}, n \in {150, 1205} }

\* Tables with at most MaxEarlierRows of them, no key twice.
MaxEarlierRows == 2

FetchTables == { SetToBag(S) : S \in { T \in SUBSET EarlierRows : Cardinality(T) <= MaxEarlierRows } }

Fetcher(fn, table, code, now, resp, fail) ==
    IF fn = "inflation"
    THEN fetch_imf_inflation(table, code, country_name_of(code), Settings1, ImfSources, now, resp, fail)
    ELSE fetch_imf_gdp(table, code, country_name_of(code), Settings1, ImfSources, now, resp, fail)

FetchInit ==
    /\ facts_evaluation \in FetchTables
    /\ scoring_settings = <<Settings1>>
    /\ sources_table = ImfSources
    /\ run = 1 /\ pc = "fetch" /\ conn = "open" /\ opens = 1 /\ settings = <<Settings1>>
    /\ imf_client = TRUE /\ total_count = 0 /\ idx = 0 /\ exit_code = -1 /\ reported = -1
    /\ calls = <<>> /\ last = NoCall /\ gained = 0 /\ queried = FALSE /\ checked = FALSE
    /\ \E fn \in {"inflation", "gdp"}, code \in FetchCodes, resp \in FetchResponses :
         probe = [fn |-> fn, code |-> code, resp |-> resp, phase |-> 0,
                  before |-> facts_evaluation, first |-> NoCall, second |-> NoCall,
                  after_first |-> facts_evaluation]

\* The record of an invocation with result r.
CallOf(r) ==
    [fn |-> probe.fn, code |-> probe.code, outcome |-> r.outcome, ret |-> r.ret,
     added |-> BagCardinality(r.table) - BagCardinality(facts_evaluation)]

\* The effect of one invocation of the fetcher under test, with result r.
FetchEffect(phase, r) ==
    /\ facts_evaluation' = r.table
    /\ last' = CallOf(r)
    /\ calls' = Append(calls, <<probe.fn, probe.code>>)
    /\ total_count' = total_count + r.ret
    /\ gained' = gained + BagCardinality(r.table) - BagCardinality(facts_evaluation)
    /\ probe' = IF phase = 0
                THEN [probe EXCEPT !.phase = 1, !.first = CallOf(r), !.after_first = r.table]
                ELSE [probe EXCEPT !.phase = 2, !.second = CallOf(r)]
    /\ UNCHANGED <<scoring_settings, sources_table, run, pc, conn, opens, settings, imf_client,
                   idx, exit_code, reported, queried, checked>>

FetchCall(phase) ==
    /\ pc = "fetch" /\ probe.phase = phase
    /\ \E now \in FetchNows, fail \in FailPoints :
         FetchEffect(phase, Fetcher(probe.fn, facts_evaluation, probe.code, now, probe.resp, fail))

FirstCall == FetchCall(0)

SecondCall == FetchCall(1)

FetchNext == FirstCall \/ SecondCall

FetchSpec == FetchInit /\ [][FetchNext]_vars

(***************************************************************************)
(* ScoreSpec: the three scoring functions applied to inputs drawn from     *)
(* bounded sets.  probe holds the arguments and the result of the latest   *)
(* application.                                                            *)
(***************************************************************************)
\* Weights range over -MaxWeight .. MaxWeight.
MaxWeight == 3

Weights == (0 - MaxWeight)..MaxWeight

Scores == {0, 50, 90, 95, 100}

\* Two digits, zero padded.
Pad2(n) == IF n < 10 THEN <<"0">> \o NatToText(n) ELSE NatToText(n)

\* The text YYYY-MM-DD of a date with a four-digit year.
IsoText(y, m, d) == NatToText(y) \o <<"-">> \o Pad2(m) \o <<"-">> \o Pad2(d)

ScoreNow == <<2026, 11, 1, 9>>

\* Evaluation dates with their age in days at ScoreNow.
ScoreDates ==
    { [text |-> IsoText(2026, 12, 31), age |-> -60],
      [text |-> IsoText(2026, 10, 22), age |-> 10],
      [text |-> IsoText(2026, 10, 2),  age |-> 30],
      [text |-> IsoText(2026, 10, 1),  age |-> 31],
      [text |-> IsoText(2026, 9, 2),   age |-> 60],
      [text |-> IsoText(2026, 8, 3),   age |-> 90],
      [text |-> IsoText(2026, 8, 2),   age |-> 91],
      [text |-> IsoText(2026, 4, 15),  age |-> 200],
      [text |-> IsoText(2024, 2, 29),  age |-> 976],
      [text |-> IsoText(2023, 12, 31), age |-> 1036] }

Tiers(d1, s1, d2, s2, s3) ==
    [recency_tier1_days |-> d1, recency_tier1_score |-> s1,
     recency_tier2_days |-> d2, recency_tier2_score |-> s2, recency_tier3_score |-> s3]

\* Rows the scoring_settings table may hold: nothing in the script
\* constrains the order of the scores or of the day thresholds.
ScoreTiers ==
    { Tiers(30, 100, 90, 80, 50), Tiers(30, 100, 90, 100, 100), Tiers(30, 50, 90, 80, 100),
      Tiers(30, 100, 90, 50, 80), Tiers(90, 100, 30, 80, 50), Tiers(30, 80, 30, 50, 50) }

WorldBankUrl == "https://data.worldbank.org/indicator/FP.CPI.TOTL.ZG"

ScoreUrls == {CPI_URL, IFS_URL, WorldBankUrl}

ScoreMetrics == {Metrics(90, 95, 85), Metrics(60, 70, 80), Metrics(1, 1, 0), Metrics(100, 100, 99)}

\* Contents of the sources table.
ScoreSources ==
    { NoSources }
    \cup { [d \in {"www.imf.org"} |-> m] : m \in ScoreMetrics }
    \cup { [d \in {"data.worldbank.org"} |-> m] : m \in ScoreMetrics }
    \cup { [d \in {"www.imf.org", "data.worldbank.org"} |->
               IF d = "www.imf.org" THEN m ELSE n] : m \in ScoreMetrics, n \in ScoreMetrics }

ScoreInit ==
    /\ facts_evaluation = EmptyBag
    /\ scoring_settings = <<Settings1>>
    /\ sources_table = ImfSources
    /\ run = 1 /\ pc = "scores" /\ conn = "open" /\ opens = 1 /\ settings = <<Settings1>>
    /\ imf_client = FALSE /\ total_count = 0 /\ idx = 0 /\ exit_code = -1 /\ reported = -1
    /\ calls = <<>> /\ last = NoCall /\ gained = 0 /\ queried = FALSE /\ checked = FALSE
    /\ probe = NoProbe

\* An application ends the behaviour: pc goes to "scored".
ScoreFrame ==
    /\ pc' = "scored"
    /\ UNCHANGED <<facts_evaluation, scoring_settings, sources_table, run, conn, opens,
                   settings, imf_client, total_count, idx, exit_code, reported, calls, last,
                   gained, queried, checked>>

ApplyTrust ==
    /\ pc = "scores"
    /\ \E a \in Scores, b \in Scores, c \in Scores, w1 \in Weights, w2 \in Weights, w3 \in Weights :
         probe' = [fn |-> "trust", scores |-> <<a, b, c>>, weights |-> <<w1, w2, w3>>,
                   out |-> calculate_trust_score(a, b, c, w1, w2, w3)]
    /\ ScoreFrame

\* The function applied, at the same instant, to two evaluation dates.
ApplyRecency ==
    /\ pc = "scores"
    /\ \E e1 \in ScoreDates, e2 \in ScoreDates, t \in ScoreTiers :
         probe' = [fn |-> "recency", tiers |-> t, age1 |-> e1.age, age2 |-> e2.age,
                   out1 |-> calculate_recency_score(ScoreNow, e1.text,
                                t.recency_tier1_days, t.recency_tier1_score,
                                t.recency_tier2_days, t.recency_tier2_score,
                                t.recency_tier3_score),
                   out2 |-> calculate_recency_score(ScoreNow, e2.text,
                                t.recency_tier1_days, t.recency_tier1_score,
                                t.recency_tier2_days, t.recency_tier2_score,
                                t.recency_tier3_score)]
    /\ ScoreFrame

ApplySourceTrust ==
    /\ pc = "scores"
    /\ \E src \in ScoreSources, url \in ScoreUrls :
         probe' = [fn |-> "source_trust", sources |-> src, source_url |-> url,
                   out |-> calculate_source_trust_score(src, url)]
    /\ ScoreFrame

ScoreNext == ApplyTrust \/ ApplyRecency \/ ApplySourceTrust

ScoreSpec == ScoreInit /\ [][ScoreNext]_vars

(***************************************************************************)
(* Properties.                                                             *)
(***************************************************************************)
\* Whether the table holds a row with the given key.
HasKeyRow(table, entity, attribute, source_url, value_text) ==
    \E row \in BagToSet(table) :
        <<row.entity, row.attribute, row.source_url, row.value>> =
        <<entity, attribute, source_url, value_text>>

\* r is n / d rounded to the nearest integer, a tie going to the even one.
IsRounded(r, n, d) ==
    LET e == IF n - r * d >= 0 THEN n - r * d ELSE r * d - n
        a == IF d >= 0 THEN d ELSE -d
    IN  /\ 2 * e <= a
        /\ (2 * e = a => r % 2 = 0)

\* The invocations main() makes for the codes from position k on: for each
\* mapped code the inflation fetch, then the GDP fetch.
RECURSIVE ExpectedFrom(_)
ExpectedFrom(k) ==
    IF k > Len(test_countries) THEN <<>>
    ELSE (IF test_countries[k] \in DOMAIN COUNTRY_CODE_MAP
          THEN <<<<"inflation", test_countries[k]>>, <<"gdp", test_countries[k]>>>>
          ELSE <<>>) \o ExpectedFrom(k + 1)

ExpectedCalls == ExpectedFrom(1)

IsPrefix(a, b) == Len(a) <= Len(b) /\ SubSeq(b, 1, Len(a)) = a

\* The outcomes of an invocation in which an exception was raised.
RaisedOutcomes ==
    {"api_error", "exists_error", "sources_error", "date_error", "insert_error", "commit_error"}

\* The outcomes in which a database call of the invocation raised.
DbRaisedOutcomes == {"exists_error", "sources_error", "insert_error", "commit_error"}

\* ---- C1 ----------------------------------------------------------------
\* Whether the fetch under test has a latest observation whose key row is in
\* the table.
ProbeKeyIn(table) ==
    /\ probe.resp.kind = "frame"
    /\ probe.resp.df # {}
    /\ HasKeyRow(table, country_name_of(probe.code), probe.fn, AttributeUrl(probe.fn),
                 str(Latest(probe.resp.df).value))

C2_OneRowPerTuple ==
    /\ \A row \in BagToSet(facts_evaluation) : CopiesIn(row, facts_evaluation) = 1
    /\ \A r1 \in BagToSet(facts_evaluation), r2 \in BagToSet(facts_evaluation) :
           (/\ r1.entity = r2.entity /\ r1.attribute = r2.attribute
            /\ r1.source_url = r2.source_url /\ r1.value = r2.value) => r1 = r2

\* A later run met a row that an earlier run had inserted.
C2_Witness ==
    /\ run = 2 /\ last.outcome = "duplicate" /\ gained = 0
    /\ BagCardinality(facts_evaluation) >= 2

\* ---- C3 ----------------------------------------------------------------
\* The safety part of C3: an exception raised in a fetcher is caught there
\* and the fetcher returns 0 (adding no row); main() is never ended by it,
\* and the invocations made are exactly the expected ones up to the loop
\* position.
C3_Safe ==
    /\ pc # "crashed"
    /\ last.outcome \in RaisedOutcomes => (last.ret = 0 /\ last.added = 0)
    /\ (pc = "loop" /\ idx <= Len(test_countries)) =>
           calls \o ExpectedFrom(idx) = ExpectedCalls
    /\ pc = "gdp" =>
           calls \o <<<<"gdp", test_countries[idx]>>>> \o ExpectedFrom(idx + 1) = ExpectedCalls
    /\ pc \in {"report", "done"} => calls = ExpectedCalls
    /\ pc = "done" => (reported = total_count /\ exit_code = 0)

\* C3: whatever fails while fetching, parsing, checking existence or
\* inserting, the fetcher catches it and returns 0, every remaining
\* invocation is still made, and a run that entered the loop reaches the
\* final report.
C3_FailuresIsolated ==
    /\ []C3_Safe
    /\ (pc = "loop") ~> (pc = "done")

\* The last invocation of a run raised (at conn.commit()), and the run went
\* on to close the connection and print the final report.
C3_Witness ==
    /\ pc = "done" /\ calls = ExpectedCalls
    /\ last.outcome = "commit_error" /\ last.ret = 0
    /\ reported = total_count

\* ---- C4 ----------------------------------------------------------------
\* C4: in a run that finds no scoring_settings row, the client is never
\* created, no API query, existence check or insert is made, the table
\* gains nothing, and the run ends with exit status 1.
C4_NoSettingsFailsFast ==
    (pc \in {"settings", "exited"} /\ settings = <<>>) \/ scoring_settings = <<>> =>
        /\ pc \in {"start", "settings", "exited"}
        /\ imf_client = FALSE
        /\ queried = FALSE /\ checked = FALSE
        /\ calls = <<>> /\ gained = 0
        /\ exit_code \in {-1, 1}
        /\ pc = "exited" <=> exit_code = 1

\* A run without settings has exited with status 1, the table holding the
\* rows of an earlier run.
C4_Witness ==
    /\ pc = "exited" /\ exit_code = 1 /\ scoring_settings = <<>>
    /\ facts_evaluation # EmptyBag

\* ---- C5 ----------------------------------------------------------------
\* C5: calculate_trust_score returns 0 whenever the three weights sum to 0,
\* cancelling non-zero weights included, and otherwise the weighted sum of
\* the scores divided by the sum of the weights, rounded; weights (3, 1, 1)
\* with scores (90, 100, 95) give 93.
C5_TrustScore ==
    probe.fn = "trust" =>
        LET w == probe.weights
            a == probe.scores
        IN  /\ (w[1] + w[2] + w[3] = 0) => probe.out = 0
            /\ (w[1] + w[2] + w[3] # 0) =>
                   IsRounded(probe.out, a[1] * w[1] + a[2] * w[2] + a[3] * w[3],
                             w[1] + w[2] + w[3])
            /\ (w = <<3, 1, 1>> /\ a = <<90, 100, 95>>) => probe.out = 93

\* Non-zero weights that cancel, scores that are not all zero: the result is 0.
C5_Witness ==
    /\ probe.fn = "trust"
    /\ probe.weights = <<3, -2, -1>> /\ probe.scores = <<90, 100, 95>>
    /\ probe.out = 0

\* ---- C6 ----------------------------------------------------------------
\* The tier of an age: what the claim says the score is.
C6_TierMatch(t, age, out) ==
    /\ (age <= t.recency_tier1_days) => out = t.recency_tier1_score
    /\ (t.recency_tier1_days < age /\ age <= t.recency_tier2_days) =>
           out = t.recency_tier2_score
    /\ (age > t.recency_tier1_days /\ age > t.recency_tier2_days) =>
           out = t.recency_tier3_score

\* C6 as stated: the score matches the tier boundaries, and for all ages
\* d1 <= d2 the score at d1 is at least the score at d2.
C6_RecencyMonotone ==
    probe.fn = "recency" =>
        /\ C6_TierMatch(probe.tiers, probe.age1, probe.out1)
        /\ C6_TierMatch(probe.tiers, probe.age2, probe.out2)
        /\ (probe.age1 <= probe.age2) => probe.out1 >= probe.out2

\* C6 amended: the score matches the tier boundaries for every settings
\* row; it is non-increasing in the age provided
\* tier1_score >= tier2_score >= tier3_score.
C6_RecencyTiers ==
    probe.fn = "recency" =>
        /\ C6_TierMatch(probe.tiers, probe.age1, probe.out1)
        /\ C6_TierMatch(probe.tiers, probe.age2, probe.out2)
        /\ (/\ probe.tiers.recency_tier1_score >= probe.tiers.recency_tier2_score
            /\ probe.tiers.recency_tier2_score >= probe.tiers.recency_tier3_score
            /\ probe.age1 <= probe.age2) => probe.out1 >= probe.out2

\* An age equal to tier1_days scores tier1_score, one day more scores less.
C6_Witness ==
    /\ probe.fn = "recency"
    /\ probe.tiers = Tiers(30, 100, 90, 80, 50)
    /\ probe.age1 = 30 /\ probe.out1 = 100
    /\ probe.age2 = 31 /\ probe.out2 = 80

\* ---- C7 ----------------------------------------------------------------
\* The domain of a source URL.
DomainOf(url) == IF url = WorldBankUrl THEN "data.worldbank.org" ELSE "www.imf.org"

\* C7: calculate_source_trust_score returns the rounded average of the three
\* metrics of the domain of the source passed in when the sources table has
\* that domain, and 91 when it does not.
C7_SourceTrustByDomain ==
    probe.fn = "source_trust" =>
        LET d == DomainOf(probe.source_url)
        IN  IF d \in DOMAIN probe.sources
            THEN IsRounded(probe.out,
                           probe.sources[d].public_trust + probe.sources[d].data_accuracy
                               + probe.sources[d].proprietary_score, 3)
            ELSE probe.out = 91

\* ---- C8 ----------------------------------------------------------------
\* C8: a fetcher invocation returns 0 or 1, the number of rows it added to
\* facts_evaluation; the running total, and the total reported at the end,
\* equal the number of rows the table gained during the run.
C8_ReturnCountsRows ==
    /\ last.ret \in {0, 1}
    /\ last.ret = last.added
    /\ last.outcome = "inserted" <=> last.ret = 1
    /\ pc \in {"loop", "gdp", "report", "done"} => total_count = gained
    /\ pc = "done" => reported = gained

\* A run ended having inserted some rows and not others.
C8_Witness ==
    /\ pc = "done" /\ reported = 3 /\ gained = 3
    /\ last.outcome = "inserted"
    /\ BagCardinality(facts_evaluation) = 3

\* ---- C9 ----------------------------------------------------------------
\* C9: a run opens one connection; when the process has ended the
\* connection is closed, whichever way it ended; once closed, the run issues
\* no database statement.
C9_ConnClosedAtExit ==
    /\ opens <= 1
    /\ pc # "start" => opens = 1
    /\ exit_code # -1 => conn = "closed"
    /\ conn = "closed" => pc \in {"report", "done"}

\* ---- C10 ---------------------------------------------------------------
\* C10: no fetcher is invoked and no row is inserted for a code without a
\* name ('GBR'); for the mapped codes the inflation fetch and then the GDP
\* fetch are invoked once each, in list order.
C10_MappedCodesOnly ==
    /\ IsPrefix(calls, ExpectedCalls)
    /\ \A k \in 1..Len(calls) : calls[k][2] \in DOMAIN COUNTRY_CODE_MAP
    /\ \A k \in 1..Len(calls) :
           /\ calls[k][1] = (IF k % 2 = 1 THEN "inflation" ELSE "gdp")
           /\ calls[k][2] = <<"USA", "CAN", "DEU", "JPN">>[(k + 1) \div 2]
    /\ \A row \in BagToSet(facts_evaluation) :
           row.entity \in {"United States", "Canada", "Germany", "Japan"}
    /\ (pc = "loop" /\ idx <= Len(test_countries)) => Len(calls) = Len(ExpectedCalls) - Len(ExpectedFrom(idx))
    /\ pc \in {"report", "done"} => calls = ExpectedCalls

\* The loop has passed the unmapped 'GBR', the last of the list, with the
\* eight invocations of the four mapped codes made.
C10_Witness ==
    /\ pc = "loop" /\ idx = Len(test_countries) + 1
    /\ test_countries[idx - 1] = "GBR"
    /\ Len(calls) = 8 /\ calls[8] = <<"gdp", "JPN">>

=============================================================================
